---- MODULE Spec2Model ----
(***************************************************************************)
(* A model of yolks/minecraft/runtime/start_hook.py: the start hook that   *)
(* patches configuration files before a Minecraft/MCDR server is launched. *)
(*                                                                         *)
(* Python strings are sequences of one-character strings, so that the      *)
(* regular expressions, splits, strips and prefix tests of the source are  *)
(* computed character by character.  Python values are tagged records.     *)
(*                                                                         *)
(* Specifications:                                                         *)
(*   Spec        main(): invocations, phases, the installation marker      *)
(*   SpecExpand  _expand_variables / _to_native_type                       *)
(*   SpecPath    _set_nested_value / _get_nested_value                     *)
(*   SpecYaml    _parse_yaml (wildcard rules)                              *)
(*   SpecLines   _parse_properties / _parse_file applied repeatedly        *)
(***************************************************************************)
EXTENDS Integers, Sequences, FiniteSets, TLC

\* The state: first main(), the file system and the run in progress
VARIABLES
    marker,         \* whether INSTALLATION_MARK_FILE exists
    dirs,           \* the directories os.makedirs has created
    config,         \* the rule document json.load returned: phase -> files
    pc,             \* "idle" | "first_launch" | "patching" | "eula"
    phase,          \* the phase apply_patches is applying
    idx,            \* the position of apply_patches in files_to_patch
    result,         \* how the last invocation ended, "running" during one
    events,         \* what the invocation did, in order
    applied,        \* the phases the invocation called apply_patches for
    markerAtStart,  \* whether the marker existed when the invocation began
    installed,      \* apply_patches("install") has returned in some invocation
    \* path addressing
    pDoc,       \* the document handed to _set_nested_value
    pPath,      \* the path, a string
    pVal,       \* the value to store
    pSet,       \* the outcome: whether it raised, and the document afterwards
    pGot,       \* what _get_nested_value then returned for the same path
    pStage,     \* "input" | "set" | "got"
    \* the line adapters
    lAdapter,   \* "properties" | "file": the adapter of the target
    lRules,     \* the "find" mapping: <<key, value>> pairs in declared order
    lEnv,       \* os.environ
    lFile,      \* the target file: whether it exists, and its text
    lOrig,      \* the target file before the first pass
    lFirst,     \* the target file after the first pass
    lRaised,    \* whether the last pass raised
    lPasses,    \* how many times the adapter has been applied
    \* the YAML adapter
    yFile,      \* the target: whether it exists, and the document it holds
    yRules,     \* the "find" mapping: <<path, value>> pairs in declared order
    yEnv,       \* os.environ
    yOut,       \* the outcome: whether _parse_yaml raised, and the target afterwards
    yStage,     \* "input" | "done"
    \* the value expander
    xValue,     \* the value handed to _expand_variables
    xEnv,       \* os.environ: a function from set variable names to strings
    xResult,    \* what _expand_variables returned
    xStage      \* "input" | "done"

xVars == <<xValue, xEnv, xResult, xStage>>

mVars == <<marker, dirs, config, pc, phase, idx, result, events, applied,
           markerAtStart, installed>>

pVars == <<pDoc, pPath, pVal, pSet, pGot, pStage>>

lVars == <<lAdapter, lRules, lEnv, lFile, lOrig, lFirst, lRaised, lPasses>>

yVars == <<yFile, yRules, yEnv, yOut, yStage>>

vars == <<mVars, xVars, pVars, lVars, yVars>>

(***************************************************************************)
(* Python values                                                           *)
(***************************************************************************)
PyStr(s) == [t |-> "str", s |-> s]
PyInt(n) == [t |-> "int", n |-> n]
PyBool(b) == [t |-> "bool", b |-> b]
None == [t |-> "none"]
PyList(items) == [t |-> "list", items |-> items]
PyDict(f) == [t |-> "dict", f |-> f]
EmptyDict == PyDict(<<>>)

IsStr(v) == v.t = "str"
IsDict(v) == v.t = "dict"
IsList(v) == v.t = "list"

(***************************************************************************)
(* Characters and strings                                                  *)
(***************************************************************************)
UpperCase == <<"A", "B", "C", "D", "E", "F", "G", "H", "I", "J", "K", "L", "M",
               "N", "O", "P", "Q", "R", "S", "T", "U", "V", "W", "X", "Y", "Z">>
LowerCase == <<"a", "b", "c", "d", "e", "f", "g", "h", "i", "j", "k", "l", "m",
               "n", "o", "p", "q", "r", "s", "t", "u", "v", "w", "x", "y", "z">>
DigitChars == <<"0", "1", "2", "3", "4", "5", "6", "7", "8", "9">>

Range(s) == {s[i] : i \in DOMAIN s}

\* \d
DigitSet == Range(DigitChars)
\* \w and [a-zA-Z0-9_], which agree on the ASCII characters of the model
WordSet == Range(UpperCase) \cup Range(LowerCase) \cup Range(DigitChars) \cup {"_"}
IsDigitChar(c) == c \in DigitSet
IsSpaceChar(c) == c \in {" ", "\t", "\n", "\r"}

DigitValue(c) == (CHOOSE i \in DOMAIN DigitChars : DigitChars[i] = c) - 1
DigitOf(n) == DigitChars[n + 1]

LowerChar(c) ==
    IF c \in Range(UpperCase)
    THEN LowerCase[CHOOSE i \in DOMAIN UpperCase : UpperCase[i] = c]
    ELSE c

\* str.lower()
Lower(s) == [i \in DOMAIN s |-> LowerChar(s[i])]

\* str.isdigit() on ASCII text
IsDigit(s) == s # <<>> /\ \A i \in DOMAIN s : IsDigitChar(s[i])

\* int(s) for a string of decimal digits
RECURSIVE ParseInt(_)
ParseInt(s) ==
    IF s = <<>> THEN 0
    ELSE 10 * ParseInt(SubSeq(s, 1, Len(s) - 1)) + DigitValue(s[Len(s)])

\* str(n) for n >= 0
RECURSIVE FormatInt(_)
FormatInt(n) ==
    IF n < 10 THEN <<DigitOf(n)>>
    ELSE FormatInt(n \div 10) \o <<DigitOf(n % 10)>>

\* s.startswith(p)
StartsWith(s, p) == Len(p) <= Len(s) /\ SubSeq(s, 1, Len(p)) = p
\* s.endswith(p)
EndsWith(s, p) == Len(p) <= Len(s) /\ SubSeq(s, Len(s) - Len(p) + 1, Len(s)) = p
\* s[i:] with a 1-based first index
From(s, i) == SubSeq(s, i, Len(s))

\* p in s, with the first index at which p occurs in s (0 when it does not)
Find(s, p) ==
    LET at == {i \in 1..(Len(s) - Len(p) + 1) : SubSeq(s, i, i + Len(p) - 1) = p}
    IN IF at = {} THEN 0 ELSE CHOOSE i \in at : \A j \in at : i <= j
Contains(s, p) == Find(s, p) # 0

\* str.strip()
Strip(s) ==
    LET keep == {i \in DOMAIN s : ~IsSpaceChar(s[i])}
    IN IF keep = {} THEN <<>>
       ELSE SubSeq(s, CHOOSE i \in keep : \A j \in keep : i <= j,
                      CHOOSE i \in keep : \A j \in keep : j <= i)

\* the length of the longest run of characters of the set chars that starts at s[i]
RunLen(s, i, chars) ==
    LET stop == {j \in i..(Len(s) + 1) : j > Len(s) \/ s[j] \notin chars}
    IN IF i > Len(s) THEN 0 ELSE (CHOOSE j \in stop : \A k \in stop : j <= k) - i

(***************************************************************************)
(* The value expander                                                      *)
(***************************************************************************)
\* _to_native_type without its isdigit branch: digits are left a string
ToNativeNoInt(value) ==
    IF ~IsStr(value) THEN value
    ELSE IF Lower(value.s) = <<"t", "r", "u", "e">> THEN PyBool(TRUE)
    ELSE IF Lower(value.s) = <<"f", "a", "l", "s", "e">> THEN PyBool(FALSE)
    ELSE value

_to_native_type(value) ==
    IF ~IsStr(value) THEN value
    ELSE LET val_lower == Lower(value.s)
         IN IF val_lower = <<"t", "r", "u", "e">> THEN PyBool(TRUE)
            ELSE IF val_lower = <<"f", "a", "l", "s", "e">> THEN PyBool(FALSE)
            ELSE IF IsDigit(val_lower) THEN PyInt(ParseInt(val_lower))
            ELSE value

\* os.getenv(name, default)
GetEnv(env, name, default) == IF name \in DOMAIN env THEN env[name] ELSE default

\* repl of _expand_variables: the text that replaces {{var_name}}
repl(env, var_name) ==
    GetEnv(env, var_name,
           <<"{", "{", "_", "U", "N", "D", "E", "F", "I", "N", "E", "D", "_">>
               \o var_name \o <<"}", "}">>)

\* The pattern \{\{([a-zA-Z0-9_]+)\}\} tried at s[i]: the index of the last
\* character of the match, or 0.  The name is the longest run of word
\* characters: a shorter one is never followed by "}".
PlaceholderEnd(s, i) ==
    LET n == RunLen(s, i + 2, WordSet)
        e == i + 2 + n
    IN IF /\ i + 1 <= Len(s) /\ s[i] = "{" /\ s[i + 1] = "{"
          /\ n >= 1
          /\ e + 1 <= Len(s) /\ s[e] = "}" /\ s[e + 1] = "}"
       THEN e + 1
       ELSE 0

\* re.sub(pattern, repl, s) from s[i] on: leftmost matches, left to right,
\* the replacement text is not scanned again
RECURSIVE ReSub(_, _, _)
ReSub(env, s, i) ==
    IF i > Len(s) THEN <<>>
    ELSE LET e == PlaceholderEnd(s, i)
         IN IF e > 0
            THEN repl(env, SubSeq(s, i + 2, e - 2)) \o ReSub(env, s, e + 1)
            ELSE <<s[i]>> \o ReSub(env, s, i + 1)

RECURSIVE _expand_variables(_, _)
_expand_variables(env, value) ==
    IF IsStr(value) THEN _to_native_type(PyStr(ReSub(env, value.s, 1)))
    ELSE IF IsDict(value)
    THEN PyDict([k \in DOMAIN value.f |-> _expand_variables(env, value.f[k])])
    ELSE IF IsList(value)
    THEN PyList([i \in DOMAIN value.items |-> _expand_variables(env, value.items[i])])
    ELSE value

(***************************************************************************)
(* Texts of the model                                                      *)
(***************************************************************************)
SERVER_PORT == <<"S", "E", "R", "V", "E", "R", "_", "P", "O", "R", "T">>
DEBUG_VAR == <<"D", "E", "B", "U", "G">>
AliasName == <<"s", "e", "r", "v", "e", "r", ".", "b", "u", "i", "l", "d", ".",
               "d", "e", "f", "a", "u", "l", "t", ".", "p", "o", "r", "t">>
ServerPortEq == <<"s", "e", "r", "v", "e", "r", "-", "p", "o", "r", "t", "=">>
T25565 == <<"2", "5", "5", "6", "5">>

Braces(name) == <<"{", "{">> \o name \o <<"}", "}">>

\* what os.environ may hold
SpecExpandEnvs ==
    {p @@ d :
        p \in {<<>>} \cup {SERVER_PORT :> v :
                  v \in {T25565, <<"0", "0", "7">>, <<"T", "r", "u", "e">>, <<>>, <<"a", " ", "b">>}},
        d \in {<<>>} \cup {DEBUG_VAR :> v : v \in {<<"f", "a", "l", "s", "e">>, <<"1">>}}}

XPrefixes == {<<>>, ServerPortEq, <<" ">>, <<"{">>}
XBodies ==
    { Braces(SERVER_PORT), Braces(<<" ">> \o SERVER_PORT \o <<" ">>), Braces(AliasName),
      Braces(DEBUG_VAR), Braces(SERVER_PORT) \o Braces(DEBUG_VAR),
      Braces(<<>>), T25565, <<"F", "A", "L", "S", "E">>, <<>> }
XStrings == {p \o b : p \in XPrefixes, b \in XBodies}

\* the values a rule may give: strings, and the other JSON values
XValues ==
    {PyStr(s) : s \in XStrings}
        \cup { PyInt(8080), PyBool(TRUE), None,
               PyList(<<PyStr(Braces(SERVER_PORT)), PyInt(1), PyStr(ServerPortEq \o Braces(SERVER_PORT))>>),
               PyDict(PyStr(<<"o", "l", "d">>) :> PyStr(Braces(SERVER_PORT))
                    @@ PyStr(<<"n", "e", "w">>) :> PyList(<<PyStr(Braces(DEBUG_VAR))>>)) }

\* the values of the variables of a specification that another one leaves alone
XIdle == xValue = None /\ xEnv = <<>> /\ xResult = None /\ xStage = "off"
NoFile == [exists |-> FALSE, text |-> <<>>]
LIdle ==
    /\ lAdapter = "" /\ lRules = <<>> /\ lEnv = <<>> /\ lFile = NoFile /\ lOrig = NoFile
    /\ lFirst = NoFile /\ lRaised = FALSE /\ lPasses = 0
NoYaml == [exists |-> FALSE, doc |-> None]
YIdle == yFile = NoYaml /\ yRules = <<>> /\ yEnv = <<>> /\ yOut = None /\ yStage = "off"
PIdle ==
    /\ pDoc = None /\ pPath = <<>> /\ pVal = None /\ pSet = None /\ pGot = None
    /\ pStage = "off"

(***************************************************************************)
(* main(): the working-directory check, the installation marker and the    *)
(* two phases of apply_patches                                             *)
(***************************************************************************)
MaxFiles == 3

\* The entries a phase's "files" mapping may hold: the target's path with
\* its os.path.dirname, the "parser" tag ("" when the key is missing) and
\* whether "find" holds any rule.
Entries ==
    { [file |-> "config.yml", dir |-> "", parser |-> "yaml", find |-> TRUE],
      [file |-> "config/paper-global.yml", dir |-> "config", parser |-> "yml", find |-> TRUE],
      [file |-> "server/server.properties", dir |-> "server", parser |-> "properties", find |-> TRUE],
      [file |-> "server/eula.txt", dir |-> "server", parser |-> "file", find |-> TRUE],
      [file |-> "plugins/luckperms.toml", dir |-> "plugins", parser |-> "toml", find |-> TRUE],
      [file |-> "server/ops.json", dir |-> "server", parser |-> "", find |-> TRUE],
      [file |-> "server/bukkit.yml", dir |-> "server", parser |-> "yaml", find |-> FALSE] }

\* a "files" mapping: entries in their declared order, one per target path
FileLists(n) ==
    {fs \in UNION {[1..k -> Entries] : k \in 0..n} :
        \A i, j \in DOMAIN fs : i # j => fs[i].file # fs[j].file}

\* rule documents with at most MaxFiles entries in all
Configs ==
    UNION {{[install |-> a, pre_start |-> b] : b \in FileLists(MaxFiles - Len(a))} :
               a \in FileLists(MaxFiles)}

MIdle ==
    /\ marker = FALSE /\ dirs = {} /\ config = <<>> /\ pc = "off" /\ phase = ""
    /\ idx = 0 /\ result = "none" /\ events = <<>> /\ applied = <<>>
    /\ markerAtStart = FALSE /\ installed = FALSE

\* is_first_launch without the write of the marker
IsFirstLaunchNoMarker(exists) == [first |-> ~exists, marker |-> exists]

\* is_first_launch, given whether the marker exists: what it returns and
\* whether the marker exists afterwards
is_first_launch(exists) == [first |-> ~exists, marker |-> TRUE]

\* AdapterFor without the "yml" tag
AdapterForNoYml(parser_type) ==
    IF parser_type = "yaml" THEN "_parse_yaml"
    ELSE IF parser_type = "properties" THEN "_parse_properties"
    ELSE IF parser_type = "file" THEN "_parse_file"
    ELSE "warning"

\* the dispatch of apply_patches on the parser tag
AdapterFor(parser_type) ==
    IF parser_type \in {"yaml", "yml"} THEN "_parse_yaml"
    ELSE IF parser_type = "properties" THEN "_parse_properties"
    ELSE IF parser_type = "file" THEN "_parse_file"
    ELSE "warning"

\* "if not parser_type or not find_rules: continue"
SkipsEntry(e) == e.parser = "" \/ ~e.find

Files(ph) == config[ph]

Init ==
    /\ XIdle
    /\ PIdle
    /\ LIdle
    /\ YIdle
    /\ marker = FALSE
    /\ dirs = {}
    /\ config \in Configs
    /\ pc = "idle"
    /\ phase = ""
    /\ idx = 0
    /\ result = "none"
    /\ events = <<>>
    /\ applied = <<>>
    /\ markerAtStart = FALSE
    /\ installed = FALSE

\* main() stops before anything is patched: the working directory is not
\* WORKING_DIR (SystemExit), or CONFIG_FILE cannot be loaded
MainRefuses ==
    /\ pc = "idle"
    /\ \E why \in {"wrong_directory", "no_rule_document"} : result' = why
    /\ markerAtStart' = marker
    /\ events' = <<>>
    /\ applied' = <<>>
    /\ phase' = ""
    /\ idx' = 0
    /\ UNCHANGED <<marker, dirs, config, pc, installed>>
    /\ UNCHANGED <<xVars, pVars, lVars, yVars>>

\* main() passes the working-directory check and loads the rule document
MainStarts ==
    /\ pc = "idle"
    /\ pc' = "first_launch"
    /\ result' = "running"
    /\ markerAtStart' = marker
    /\ events' = <<>>
    /\ applied' = <<>>
    /\ phase' = ""
    /\ idx' = 0
    /\ UNCHANGED <<marker, dirs, config, installed>>
    /\ UNCHANGED <<xVars, pVars, lVars, yVars>>

\* "if is_first_launch(): patcher.apply_patches("install")", up to the loop
\* of the phase main() enters
FirstLaunchCheck ==
    /\ pc = "first_launch"
    /\ LET r == is_first_launch(marker)
           ph == IF r.first THEN "install" ELSE "pre_start"
       IN /\ marker' = r.marker
          /\ phase' = ph
          /\ applied' = Append(applied, ph)
    /\ idx' = 1
    /\ pc' = "patching"
    /\ UNCHANGED <<dirs, config, result, events, markerAtStart, installed>>
    /\ UNCHANGED <<xVars, pVars, lVars, yVars>>

\* what one iteration of the loop of apply_patches does for entry i of the
\* phase, before the adapter returns or raises
EntryEvents(ph, i) ==
    LET e == Files(ph)[i]
    IN IF SkipsEntry(e) THEN <<>>
       ELSE (IF e.dir # "" THEN <<[phase |-> ph, file |-> e.file, did |-> "makedirs"]>>
             ELSE <<>>)
            \o <<[phase |-> ph, file |-> e.file, did |-> AdapterFor(e.parser)]>>

EntryDirs(ph, i) ==
    LET e == Files(ph)[i]
    IN IF SkipsEntry(e) \/ e.dir = "" THEN {} ELSE {e.dir}

\* one iteration of "for file_path, instructions in files_to_patch.items()"
\* that runs to its end
PatchEntry ==
    /\ pc = "patching"
    /\ idx <= Len(Files(phase))
    /\ events' = events \o EntryEvents(phase, idx)
    /\ dirs' = dirs \cup EntryDirs(phase, idx)
    /\ idx' = idx + 1
    /\ UNCHANGED <<marker, config, pc, phase, result, applied, markerAtStart, installed>>
    /\ UNCHANGED <<xVars, pVars, lVars, yVars>>

\* one iteration whose adapter raises (an I/O error on the target, or
\* final_line.endswith on a value _expand_variables made an int): the
\* exception leaves main()
PatchEntryRaises ==
    /\ pc = "patching"
    /\ idx <= Len(Files(phase))
    /\ ~SkipsEntry(Files(phase)[idx])
    /\ AdapterFor(Files(phase)[idx].parser) # "warning"
    /\ events' = events \o EntryEvents(phase, idx)
    /\ dirs' = dirs \cup EntryDirs(phase, idx)
    /\ pc' = "idle"
    /\ result' = "error"
    /\ UNCHANGED <<marker, config, phase, idx, applied, markerAtStart, installed>>
    /\ UNCHANGED <<xVars, pVars, lVars, yVars>>

\* apply_patches returns: after "install" main() calls it for "pre_start",
\* after "pre_start" it goes on to move_minecraft_eula
PhaseEnds ==
    /\ pc = "patching"
    /\ idx > Len(Files(phase))
    /\ IF phase = "install"
       THEN /\ installed' = TRUE
            /\ phase' = "pre_start"
            /\ applied' = Append(applied, "pre_start")
            /\ idx' = 1
            /\ UNCHANGED pc
       ELSE /\ pc' = "eula"
            /\ UNCHANGED <<installed, phase, applied, idx>>
    /\ UNCHANGED <<marker, dirs, config, result, events, markerAtStart>>
    /\ UNCHANGED <<xVars, pVars, lVars, yVars>>

\* move_minecraft_eula and the end of main(): eula.txt is not a target of
\* the rule document and none of the variables changes with it
MainEnds ==
    /\ pc = "eula"
    /\ pc' = "idle"
    /\ result' = "ok"
    /\ UNCHANGED <<marker, dirs, config, phase, idx, events, applied, markerAtStart, installed>>
    /\ UNCHANGED <<xVars, pVars, lVars, yVars>>

Next ==
    \/ MainRefuses
    \/ MainStarts
    \/ FirstLaunchCheck
    \/ PatchEntry
    \/ PatchEntryRaises
    \/ PhaseEnds
    \/ MainEnds

Spec == Init /\ [][Next]_vars

(***************************************************************************)
(* SpecExpand: one call of _expand_variables                               *)
(***************************************************************************)
InitExpand ==
    /\ MIdle
    /\ PIdle
    /\ LIdle
    /\ YIdle
    /\ xValue \in XValues
    /\ xEnv \in SpecExpandEnvs
    /\ xResult = None
    /\ xStage = "input"

Expand ==
    /\ xStage = "input"
    /\ xResult' = _expand_variables(xEnv, xValue)
    /\ xStage' = "done"
    /\ UNCHANGED <<xValue, xEnv>>
    /\ UNCHANGED <<mVars, pVars, lVars, yVars>>

NextExpand == Expand

SpecExpand == InitExpand /\ [][NextExpand]_vars

(***************************************************************************)
(* Path addressing                                                         *)
(***************************************************************************)
\* the pieces of s between the separators at the indices cuts, from s[start] on
RECURSIVE SplitFrom(_, _, _)
SplitFrom(s, start, cuts) ==
    LET later == {c \in cuts : c >= start}
    IN IF later = {} THEN <<SubSeq(s, start, Len(s))>>
       ELSE LET c == CHOOSE x \in later : \A y \in later : x <= y
            IN <<SubSeq(s, start, c - 1)>> \o SplitFrom(s, c + 1, cuts)

\* the lookahead (?![^\[]*\]) at s[i+1]: no "]" comes before the next "["
NotInBrackets(s, i) ==
    ~\E j \in (i + 1)..Len(s) :
        s[j] = "]" /\ \A k \in (i + 1)..(j - 1) : s[k] # "["

\* re.split(r"\.(?![^\[]*\])", path)
SplitOutsideBrackets(path) ==
    SplitFrom(path, 1, {i \in DOMAIN path : path[i] = "." /\ NotInBrackets(path, i)})

\* path.split(".")
SplitDots(path) == SplitFrom(path, 1, {i \in DOMAIN path : path[i] = "."})

\* re.match(r"(\w+)\[(\d+)\]", key): whether key begins with name[digits],
\* and the two groups.  Each run is the longest one: a shorter name or
\* number is followed by a character the pattern does not allow there.
IndexMatch(key) ==
    LET n == RunLen(key, 1, WordSet)
        m == RunLen(key, n + 2, DigitSet)
    IN IF /\ n >= 1 /\ n + 1 <= Len(key) /\ key[n + 1] = "["
          /\ m >= 1 /\ n + 2 + m <= Len(key) /\ key[n + 2 + m] = "]"
       THEN [ok |-> TRUE, key_name |-> SubSeq(key, 1, n),
             index |-> ParseInt(SubSeq(key, n + 2, n + 1 + m))]
       ELSE [ok |-> FALSE, key_name |-> <<>>, index |-> 0]

\* d[k] = v on a dict
DictSet(d, k, v) == PyDict((k :> v) @@ d.f)
HasKey(d, k) == k \in DOMAIN d.f

\* "while len(xs) <= index: xs.append(filler)"
PadTo(xs, index, filler) ==
    PyList([i \in 1..(IF Len(xs.items) > index THEN Len(xs.items) ELSE index + 1) |->
               IF i <= Len(xs.items) THEN xs.items[i] ELSE filler])
\* xs[index] = v on a list long enough
ListSet(xs, index, v) == PyList([xs.items EXCEPT ![index + 1] = v])

Raised(node) == [raised |-> TRUE, node |-> node]
Stored(node) == [raised |-> FALSE, node |-> node]

\* The body of _set_nested_value from keys[i] on, with current_level = cur:
\* whether an exception is raised, and cur afterwards (Python changes the
\* document in place, also before it raises).
\*
\* A current_level that is no dict raises at its first use: None, an int or a
\* bool at "in" (TypeError); a list or a str at the item assignment
\* (TypeError) or at .get (AttributeError).
RECURSIVE SetFrom(_, _, _, _)
SetFrom(cur, keys, i, value) ==
    LET key == keys[i]
        m == IndexMatch(key)
        last == i = Len(keys)
    IN IF ~IsDict(cur) THEN Raised(cur)
       ELSE IF m.ok
       THEN LET k == PyStr(m.key_name)
                c1 == IF HasKey(cur, k) THEN cur ELSE DictSet(cur, k, PyList(<<>>))
                xs == c1.f[k]
            IN IF IsList(xs)
               THEN LET padded == PadTo(xs, m.index, IF last THEN None ELSE EmptyDict)
                    IN IF last
                       THEN Stored(DictSet(c1, k, ListSet(padded, m.index, value)))
                       ELSE LET r == SetFrom(padded.items[m.index + 1], keys, i + 1, value)
                            IN [raised |-> r.raised,
                                node |-> DictSet(c1, k, ListSet(padded, m.index, r.node))]
               ELSE IF IsDict(xs)
               \* len(dict) is its number of keys; dict has no append; dict[index]
               \* reads or writes the int key index
               THEN IF Cardinality(DOMAIN xs.f) <= m.index THEN Raised(c1)
                    ELSE IF last
                    THEN Stored(DictSet(c1, k, DictSet(xs, PyInt(m.index), value)))
                    ELSE IF ~HasKey(xs, PyInt(m.index)) THEN Raised(c1)
                    ELSE LET r == SetFrom(xs.f[PyInt(m.index)], keys, i + 1, value)
                         IN [raised |-> r.raised,
                             node |-> DictSet(c1, k, DictSet(xs, PyInt(m.index), r.node))]
               \* a str has a len but neither append nor item assignment, and
               \* its item is a str again, which is no dict
               ELSE IF IsStr(xs) THEN Raised(c1)
               \* len(None), len(int), len(bool): TypeError
               ELSE Raised(c1)
       ELSE LET k == PyStr(key)
            IN IF last THEN Stored(DictSet(cur, k, value))
               ELSE LET c1 == IF ~HasKey(cur, k) \/ ~IsDict(cur.f[k])
                              THEN DictSet(cur, k, EmptyDict) ELSE cur
                        r == SetFrom(c1.f[k], keys, i + 1, value)
                    IN [raised |-> r.raised, node |-> DictSet(c1, k, r.node)]

_set_nested_value(data, path, value) ==
    LET r == SetFrom(data, SplitOutsideBrackets(path), 1, value)
    IN [raised |-> r.raised, data |-> r.node]

RECURSIVE GetFrom(_, _, _)
GetFrom(current, keys, i) ==
    IF i > Len(keys) THEN current
    ELSE IF IsDict(current) /\ HasKey(current, PyStr(keys[i]))
    THEN GetFrom(current.f[PyStr(keys[i])], keys, i + 1)
    ELSE None

_get_nested_value(data, path) == GetFrom(data, SplitDots(path), 1)

(***************************************************************************)
(* SpecPath: _set_nested_value, then _get_nested_value of the same path    *)
(***************************************************************************)
MaxIndex == 1
MaxSegments == 2

PathKeys == {<<"a">>, <<"b">>}

\* a path segment: a plain key (index -1) or key[index]
Segments == [key : PathKeys, index : -1..MaxIndex]
SegmentSeqs == UNION {[1..n -> Segments] : n \in 1..MaxSegments}

RenderSegment(seg) ==
    IF seg.index < 0 THEN seg.key
    ELSE seg.key \o <<"[">> \o FormatInt(seg.index) \o <<"]">>

RECURSIVE RenderPath(_)
RenderPath(segs) ==
    IF Len(segs) = 1 THEN RenderSegment(segs[1])
    ELSE RenderPath(SubSeq(segs, 1, Len(segs) - 1)) \o <<".">> \o RenderSegment(segs[Len(segs)])

\* the documents: a map of a and b to scalars, to maps of scalars or to
\* lists of scalars
Scalars == {None, PyStr(<<"x">>), PyInt(7)}
DictsOver(keys, values) ==
    UNION {{PyDict(f) : f \in [{PyStr(k) : k \in ks} -> values]} : ks \in SUBSET keys}
ListsOver(values, n) == UNION {{PyList(l) : l \in [1..k -> values]} : k \in 0..n}
Nodes == Scalars \cup DictsOver(PathKeys, Scalars) \cup ListsOver(Scalars, MaxIndex + 1)
PathDocs == DictsOver(PathKeys, Nodes)
PathValues == {PyStr(<<"v">>), PyList(<<PyInt(1)>>)}

InitPath ==
    /\ MIdle
    /\ XIdle
    /\ LIdle
    /\ YIdle
    /\ pDoc \in PathDocs
    /\ pPath \in {RenderPath(segs) : segs \in SegmentSeqs}
    /\ pVal \in PathValues
    /\ pSet = None
    /\ pGot = None
    /\ pStage = "input"

SetPath ==
    /\ pStage = "input"
    /\ pSet' = _set_nested_value(pDoc, pPath, pVal)
    /\ pStage' = "set"
    /\ UNCHANGED <<pDoc, pPath, pVal, pGot>>
    /\ UNCHANGED <<mVars, xVars, lVars, yVars>>

GetPath ==
    /\ pStage = "set"
    /\ ~pSet.raised
    /\ pGot' = _get_nested_value(pSet.data, pPath)
    /\ pStage' = "got"
    /\ UNCHANGED <<pDoc, pPath, pVal, pSet>>
    /\ UNCHANGED <<mVars, xVars, lVars, yVars>>

NextPath == SetPath \/ GetPath

SpecPath == InitPath /\ [][NextPath]_vars

(***************************************************************************)
(* The line adapters                                                       *)
(***************************************************************************)
NL == <<"\n">>

\* f.readlines(): the lines of the text, each with its "\n", the last one
\* without when the text does not end with one
RECURSIVE ReadLines(_)
ReadLines(text) ==
    IF text = <<>> THEN <<>>
    ELSE LET nl == Find(text, NL)
         IN IF nl = 0 THEN <<text>>
            ELSE <<SubSeq(text, 1, nl)>> \o ReadLines(From(text, nl + 1))

\* f.writelines(lines): the strings one after the other, nothing added
RECURSIVE WriteLines(_)
WriteLines(lines) ==
    IF lines = <<>> THEN <<>> ELSE lines[1] \o WriteLines(Tail(lines))

LinesOf(file) == IF file.exists THEN ReadLines(file.text) ELSE <<>>

\* f"{value}" for the scalars a rule of a line adapter may expand to
Format(value) ==
    CASE value.t = "str" -> value.s
      [] value.t = "int" -> FormatInt(value.n)
      [] value.t = "bool" -> IF value.b THEN <<"T", "r", "u", "e">>
                             ELSE <<"F", "a", "l", "s", "e">>
      [] value.t = "none" -> <<"N", "o", "n", "e">>

RuleKeys(rules) == {rules[i][1] : i \in DOMAIN rules}
RuleValue(rules, key) == rules[CHOOSE i \in DOMAIN rules : rules[i][1] = key][2]

\* the first test of the loop of _parse_properties: a blank line, a comment
\* or a line without "="
PassesThrough(line) ==
    LET stripped_line == Strip(line)
    IN \/ stripped_line = <<>>
       \/ StartsWith(stripped_line, <<"#">>)
       \/ ~Contains(stripped_line, <<"=">>)

\* stripped_line.split("=", 1)[0].strip()
PropertyKey(line) ==
    LET stripped_line == Strip(line)
    IN Strip(SubSeq(stripped_line, 1, Find(stripped_line, <<"=">>) - 1))

\* f"{key}={final_value}\n"
PropertyLine(env, key, value) ==
    key \o <<"=">> \o Format(_expand_variables(env, value)) \o NL

\* the first loop of _parse_properties: output_lines and processed_keys
\* after the lines from lines[i] on
RECURSIVE PropertiesScan(_, _, _, _)
PropertiesScan(env, rules, lines, i) ==
    IF i > Len(lines) THEN [output_lines |-> <<>>, processed_keys |-> {}]
    ELSE LET line == lines[i]
             rest == PropertiesScan(env, rules, lines, i + 1)
             key == PropertyKey(line)
         IN IF ~PassesThrough(line) /\ key \in RuleKeys(rules)
            THEN [output_lines |->
                      <<PropertyLine(env, key, RuleValue(rules, key))>> \o rest.output_lines,
                  processed_keys |-> {key} \cup rest.processed_keys]
            ELSE [rest EXCEPT !.output_lines = <<line>> \o @]

\* the second loop of _parse_properties: a line for each rule whose key is
\* not in processed_keys, in the order of the rules
RECURSIVE PropertiesAppend(_, _, _, _)
PropertiesAppend(env, rules, processed_keys, i) ==
    IF i > Len(rules) THEN <<>>
    ELSE (IF rules[i][1] \in processed_keys THEN <<>>
          ELSE <<PropertyLine(env, rules[i][1], rules[i][2])>>)
         \o PropertiesAppend(env, rules, processed_keys, i + 1)

\* _parse_properties: the file afterwards
_parse_properties(env, file, rules) ==
    LET scan == PropertiesScan(env, rules, LinesOf(file), 1)
        output_lines == scan.output_lines
                            \o PropertiesAppend(env, rules, scan.processed_keys, 1)
    IN [exists |-> TRUE, text |-> WriteLines(output_lines)]

\* the first rule, in declared order, whose key the stripped line starts
\* with; 0 when there is none
FirstMatch(rules, line) ==
    LET hits == {j \in DOMAIN rules : StartsWith(Strip(line), rules[j][1])}
    IN IF hits = {} THEN 0 ELSE CHOOSE j \in hits : \A k \in hits : j <= k

\* the loop of _parse_file from lines[i] on: the output lines, and whether
\* final_line.endswith raised because the expanded value is no str
RECURSIVE FileScan(_, _, _, _)
FileScan(env, rules, lines, i) ==
    IF i > Len(lines) THEN [raised |-> FALSE, output_lines |-> <<>>]
    ELSE LET j == FirstMatch(rules, lines[i])
             final_line == IF j = 0 THEN None ELSE _expand_variables(env, rules[j][2])
             rest == FileScan(env, rules, lines, i + 1)
         IN IF j = 0 THEN [rest EXCEPT !.output_lines = <<lines[i]>> \o @]
            ELSE IF ~IsStr(final_line) THEN [raised |-> TRUE, output_lines |-> <<>>]
            ELSE [rest EXCEPT !.output_lines =
                      <<IF EndsWith(final_line.s, NL) THEN final_line.s
                        ELSE final_line.s \o NL>> \o @]

\* _parse_file: whether it raised, and the file afterwards.  A missing file
\* is skipped; a file is written only after every line has been scanned.
_parse_file(env, file, rules) ==
    IF ~file.exists THEN [raised |-> FALSE, file |-> file]
    ELSE LET scan == FileScan(env, rules, ReadLines(file.text), 1)
         IN IF scan.raised THEN [raised |-> TRUE, file |-> file]
            ELSE [raised |-> FALSE,
                  file |-> [exists |-> TRUE, text |-> WriteLines(scan.output_lines)]]

(***************************************************************************)
(* SpecLines: a line adapter applied to a file, and applied again          *)
(***************************************************************************)
MaxLines == 2
MaxRules == 2
MaxPasses == 2

\* the lines a target may hold, without their "\n"
LineTexts ==
    { <<"a", "=", "1">>, <<" ", "c", " ", "=", "2">>, <<"#", "a", "=", "1">>,
      <<"m", "o", "t", "d">>, <<>> }

RECURSIVE JoinLines(_)
JoinLines(texts) ==
    IF texts = <<>> THEN <<>> ELSE texts[1] \o NL \o JoinLines(Tail(texts))

\* the texts of a target: up to MaxLines lines, the last one with or
\* without its "\n"
FileTexts ==
    LET whole == {JoinLines(ts) : ts \in UNION {[1..n -> LineTexts] : n \in 0..MaxLines}}
    IN whole \cup {SubSeq(t, 1, Len(t) - 1) : t \in whole \ {<<>>}}

TargetFiles == {NoFile} \cup {[exists |-> TRUE, text |-> t] : t \in FileTexts}

PropertiesRuleKeys == {<<"a">>, <<"c">>, <<"m", "o", "t", "d">>}
PropertiesRuleValues ==
    {PyStr(<<"3">>), PyStr(Braces(SERVER_PORT)), PyStr(<<"t", "r", "u", "e">>), PyInt(4)}
\* The rules of a generic target: a line prefix and the line that replaces
\* it.  No replacement begins with the prefix of another rule, as the rule
\* documents of the images are written.
FileRules ==
    { <<<<"a", "=">>, PyStr(<<"a", "=", "9">>)>>,
      <<<<"a", "=">>, PyStr(<<"a", "=">> \o Braces(SERVER_PORT))>>,
      <<<<"c">>, PyStr(<<"c", "=">> \o Braces(SERVER_PORT) \o NL)>>,
      <<<<"m", "o", "t", "d">>, PyStr(Braces(SERVER_PORT))>>,
      <<<<"#", "a">>, PyStr(<<"#", "a", "=", "1">>)>>,
      <<<<"p", "v", "p", "=">>, PyStr(<<"p", "v", "p", "=", "t", "r", "u", "e">>)>> }

\* a non-empty "find" mapping: apply_patches skips an entry without rules
RuleLists(rules) ==
    {rs \in UNION {[1..n -> rules] : n \in 1..MaxRules} :
        \A i, j \in DOMAIN rs : i # j => rs[i][1] # rs[j][1]}

LineEnvs == {<<>>, SERVER_PORT :> T25565, SERVER_PORT :> <<"o", "n">>}

InitLines ==
    /\ MIdle
    /\ XIdle
    /\ PIdle
    /\ YIdle
    /\ lAdapter \in {"properties", "file"}
    /\ lRules \in IF lAdapter = "properties"
                  THEN RuleLists(PropertiesRuleKeys \X PropertiesRuleValues)
                  ELSE RuleLists(FileRules)
    /\ lEnv \in LineEnvs
    /\ lFile \in TargetFiles
    /\ lOrig = lFile
    /\ lFirst = NoFile
    /\ lRaised = FALSE
    /\ lPasses = 0

\* apply_patches hands the target to _parse_properties
ApplyProperties ==
    /\ lAdapter = "properties"
    /\ lPasses < MaxPasses
    /\ lFile' = _parse_properties(lEnv, lFile, lRules)
    /\ lFirst' = IF lPasses = 0 THEN lFile' ELSE lFirst
    /\ lPasses' = lPasses + 1
    /\ UNCHANGED <<lAdapter, lRules, lEnv, lOrig, lRaised>>
    /\ UNCHANGED <<mVars, xVars, pVars, yVars>>

\* apply_patches hands the target to _parse_file; an exception ends the run
ApplyFile ==
    /\ lAdapter = "file"
    /\ lPasses < MaxPasses
    /\ ~lRaised
    /\ LET r == _parse_file(lEnv, lFile, lRules)
       IN /\ lFile' = r.file
          /\ lRaised' = r.raised
    /\ lFirst' = IF lPasses = 0 THEN lFile' ELSE lFirst
    /\ lPasses' = lPasses + 1
    /\ UNCHANGED <<lAdapter, lRules, lEnv, lOrig>>
    /\ UNCHANGED <<mVars, xVars, pVars, yVars>>

NextLines == ApplyProperties \/ ApplyFile

SpecLines == InitLines /\ [][NextLines]_vars

(***************************************************************************)
(* The YAML adapter                                                        *)
(***************************************************************************)
\* s.split(sep)
RECURSIVE SplitOn(_, _)
SplitOn(s, sep) ==
    LET at == Find(s, sep)
    IN IF at = 0 THEN <<s>>
       ELSE <<SubSeq(s, 1, at - 1)>> \o SplitOn(From(s, at + Len(sep)), sep)

\* shlex.split(s) for a text without quotes, escapes or comments: its words
RECURSIVE SplitWords(_)
SplitWords(s) ==
    LET skip == RunLen(s, 1, {" ", "\t", "\n", "\r"})
        rest == From(s, skip + 1)
        stop == {i \in 1..(Len(rest) + 1) : i > Len(rest) \/ IsSpaceChar(rest[i])}
        n == (CHOOSE i \in stop : \A j \in stop : i <= j) - 1
    IN IF rest = <<>> THEN <<>>
       ELSE <<PyStr(SubSeq(rest, 1, n))>> \o SplitWords(From(rest, n + 1))

MCDR_CMD_PART(name) == <<"M", "C", "D", "R", "_", "C", "M", "D", "_", "P", "A", "R", "T", "_">> \o name
CommandParts ==
    << MCDR_CMD_PART(<<"E", "X", "E", "C">>), MCDR_CMD_PART(<<"J", "V", "M">>),
       MCDR_CMD_PART(<<"M", "A", "I", "N">>), MCDR_CMD_PART(<<"A", "R", "G", "S">>) >>

\* build_start_command_list from the part CommandParts[i] on: the words of
\* every part that is set and not empty
RECURSIVE StartCommandFrom(_, _)
StartCommandFrom(env, i) ==
    IF i > Len(CommandParts) THEN <<>>
    ELSE (IF GetEnv(env, CommandParts[i], <<>>) # <<>>
          THEN SplitWords(env[CommandParts[i]]) ELSE <<>>)
         \o StartCommandFrom(env, i + 1)

build_start_command_list(env) == PyList(StartCommandFrom(env, 1))

DYNAMICALLY_GENERATED ==
    <<"D", "Y", "N", "A", "M", "I", "C", "A", "L", "L", "Y", "_",
      "G", "E", "N", "E", "R", "A", "T", "E", "D", "_", "B", "Y", "_",
      "S", "T", "A", "R", "T", "_", "H", "O", "O", "K">>

WILDCARD == <<".", "*", ".">>

\* "current_val in final_value" needs a hashable current_val
Hashable(v) == v.t \notin {"list", "dict"}

\* The loop "for server_key in data[prefix]" over the keys still to visit:
\* whether it raised, and data afterwards.  Each pass reads and writes only
\* below its own server_key, so the order of the keys does not matter.
RECURSIVE WildcardLoop(_, _, _, _, _)
\* the loop after the _set_nested_value of one pass returned or raised
WildcardNext(r, prefix, suffix, final_value, todo) ==
    IF r.raised THEN r ELSE WildcardLoop(r.data, prefix, suffix, final_value, todo)

\* one pass of the loop for server_key, current_val being what
\* _get_nested_value returned for nested_path
WildcardPass(data, prefix, suffix, final_value, todo, nested_path, current_val) ==
    IF ~IsDict(final_value) THEN WildcardLoop(data, prefix, suffix, final_value, todo)
    ELSE IF ~Hashable(current_val) THEN [raised |-> TRUE, data |-> data]
    ELSE IF ~HasKey(final_value, current_val)
    THEN WildcardLoop(data, prefix, suffix, final_value, todo)
    ELSE WildcardNext(_set_nested_value(data, nested_path, final_value.f[current_val]),
                      prefix, suffix, final_value, todo)

WildcardLoop(data, prefix, suffix, final_value, todo) ==
    IF todo = {} THEN [raised |-> FALSE, data |-> data]
    ELSE LET server_key == CHOOSE k \in todo : TRUE
             nested_path == prefix \o <<".">> \o server_key.s \o <<".">> \o suffix
         IN WildcardPass(data, prefix, suffix, final_value, todo \ {server_key},
                         nested_path, _get_nested_value(data, nested_path))

\* "if ".*." in match: ... else: ..." for the final_value of the rule
SetYamlRule(data, match, final_value, parts) ==
    IF Contains(match, WILDCARD)
    \* "prefix, suffix = match.split(".*.")": ValueError unless two parts
    THEN IF Len(parts) # 2 THEN [raised |-> TRUE, data |-> data]
         ELSE IF HasKey(data, PyStr(parts[1])) /\ IsDict(data.f[PyStr(parts[1])])
         THEN WildcardLoop(data, parts[1], parts[2], final_value,
                           DOMAIN data.f[PyStr(parts[1])].f)
         ELSE [raised |-> FALSE, data |-> data]
    ELSE _set_nested_value(data, match, final_value)

\* one pass of "for match, replace_with in rules.items()"
ApplyYamlRule(env, data, match, replace_with) ==
    SetYamlRule(data, match,
                IF replace_with = PyStr(DYNAMICALLY_GENERATED)
                THEN build_start_command_list(env)
                ELSE _expand_variables(env, replace_with),
                SplitOn(match, WILDCARD))

RECURSIVE YamlRulesFrom(_, _, _, _)
\* the loop over the rules after the pass for one rule returned or raised
YamlRulesNext(env, r, rules, i) ==
    IF r.raised THEN r ELSE YamlRulesFrom(env, r.data, rules, i)

YamlRulesFrom(env, data, rules, i) ==
    IF i > Len(rules) THEN [raised |-> FALSE, data |-> data]
    ELSE YamlRulesNext(env, ApplyYamlRule(env, data, rules[i][1], rules[i][2]), rules, i + 1)

\* what _parse_yaml leaves, r being the outcome of the loop over the rules:
\* the target is written only after the last rule
YamlWritten(file, r) ==
    IF r.raised THEN [raised |-> TRUE, file |-> file]
    ELSE [raised |-> FALSE, file |-> [exists |-> TRUE, doc |-> r.data]]

\* _parse_yaml: whether it raised, and the target afterwards.  A missing
\* target starts from {}; _write_yaml followed by _read_yaml gives the
\* document back.
_parse_yaml(env, file, rules) ==
    YamlWritten(file, YamlRulesFrom(env, IF file.exists THEN file.doc ELSE EmptyDict, rules, 1))

(***************************************************************************)
(* SpecYaml: one call of _parse_yaml                                       *)
(***************************************************************************)
MaxYamlRules == 2

K(text) == PyStr(text)
SERVERS == <<"s", "e", "r", "v", "e", "r", "s">>
NET == <<"n", "e", "t">>
MODE == <<"m", "o", "d", "e">>
ModeOld == <<"o", "l", "d">>
ModeNew == <<"n", "e", "w">>
RENAMED == <<"r", "e", "n", "a", "m", "e", "d">>

JoinDots(a, b) == a \o <<".">> \o b

\* what a server entry may be: a map with or without a mode, or a scalar
ServerEntries ==
    { PyDict(K(MODE) :> PyStr(ModeOld)), PyDict(K(MODE) :> PyStr(ModeNew)),
      PyDict(K(MODE) :> PyInt(1)), EmptyDict, PyStr(ModeOld) }
ServerMaps == DictsOver({<<"s", "1">>, <<"s", "2">>}, ServerEntries)

\* the documents: the servers at the top, or below "net"; "servers" may also
\* be a scalar
YamlDocs ==
    {PyDict(K(SERVERS) :> m) : m \in ServerMaps \cup {PyStr(ModeOld)}}
        \cup {PyDict(K(NET) :> PyDict(K(SERVERS) :> m)) : m \in ServerMaps}
        \cup {PyDict(K(NET) :> PyStr(ModeOld))}

YamlTargets == {NoYaml} \cup {[exists |-> TRUE, doc |-> d] : d \in YamlDocs}

Remap == PyDict(K(ModeOld) :> PyStr(RENAMED))
RemapBoth == PyDict(K(ModeOld) :> PyStr(RENAMED) @@ K(ModeNew) :> PyStr(Braces(SERVER_PORT)))

WildcardPrefixes == {SERVERS, JoinDots(NET, SERVERS)}
WildcardRules ==
    {<<pre \o WILDCARD \o MODE, spec>> : pre \in WildcardPrefixes, spec \in {Remap, RemapBoth}}

YamlRules ==
    WildcardRules
        \cup { <<SERVERS \o WILDCARD \o MODE, PyStr(RENAMED)>>,
               <<SERVERS \o WILDCARD \o MODE \o WILDCARD \o MODE, Remap>>,
               <<JoinDots(JoinDots(SERVERS, <<"s", "1">>), MODE), PyStr(Braces(SERVER_PORT))>>,
               <<<<"s", "t", "a", "r", "t", "_", "c", "o", "m", "m", "a", "n", "d">>,
                 PyStr(DYNAMICALLY_GENERATED)>> }

YamlRuleLists ==
    {rs \in UNION {[1..n -> YamlRules] : n \in 1..MaxYamlRules} :
        \A i, j \in DOMAIN rs : i # j => rs[i][1] # rs[j][1]}

YamlEnvs ==
    { <<>>,
      SERVER_PORT :> T25565,
      SERVER_PORT :> T25565
        @@ CommandParts[1] :> <<"j", "a", "v", "a">>
        @@ CommandParts[2] :> <<"-", "X", "m", "x", "1", "G", " ", " ", "-", "X", "m", "s", "1", "G">>
        @@ CommandParts[3] :> <<>> }

InitYaml ==
    /\ MIdle
    /\ XIdle
    /\ PIdle
    /\ LIdle
    /\ yFile \in YamlTargets
    /\ yRules \in YamlRuleLists
    /\ yEnv \in YamlEnvs
    /\ yOut = None
    /\ yStage = "input"

\* apply_patches hands the target to _parse_yaml
ParseYaml ==
    /\ yStage = "input"
    /\ yOut' = _parse_yaml(yEnv, yFile, yRules)
    /\ yStage' = "done"
    /\ UNCHANGED <<yFile, yRules, yEnv>>
    /\ UNCHANGED <<mVars, xVars, pVars, lVars>>

NextYaml == ParseYaml

SpecYaml == InitYaml /\ [][NextYaml]_vars

(***************************************************************************)
(* C4, C5, C6: the line adapters                                           *)
(***************************************************************************)
\* the rules, in declared order, that satisfy Keep
RECURSIVE RulesWhere(_, _, _)
RulesWhere(rules, keep, i) ==
    IF i > Len(rules) THEN <<>>
    ELSE (IF i \in keep THEN <<rules[i]>> ELSE <<>>) \o RulesWhere(rules, keep, i + 1)

\* the expansion of a rule value as text
ValueText(value) == Format(_expand_variables(lEnv, value))

\* the line a rule value makes: its expansion, ended by one "\n"
ValueLine(value) ==
    IF EndsWith(ValueText(value), NL) THEN ValueText(value) ELSE ValueText(value) \o NL

\* C4 as claimed: after _parse_file has patched an existing file, every rule
\* whose prefix matched no line of the file is a new line of the output,
\* after the lines the file had.
C4_UnmatchedRulesAppended ==
    (lAdapter = "file" /\ lPasses = 1 /\ lOrig.exists /\ ~lRaised) =>
        LET before == ReadLines(lOrig.text)
            after == ReadLines(lFile.text)
        IN \A j \in DOMAIN lRules :
               (\A i \in DOMAIN before : ~StartsWith(Strip(before[i]), lRules[j][1])) =>
                   \E i \in (Len(before) + 1)..Len(after) : after[i] = ValueLine(lRules[j][2])

\* C5 as claimed: for the properties adapter and the generic line adapter,
\* whatever the file held (its last line with or without "\n"), the file
\* after the second application of the rules is the file after the first.
C5_SecondPassChangesNothing == lPasses = 2 => lFile = lFirst

\* the rule key of a line of a properties file: the trimmed text before the
\* first "=", for a line that is not blank, not a comment and has an "="
HasRuledKey(line) == ~PassesThrough(line) /\ PropertyKey(line) \in RuleKeys(lRules)

\* C6 as claimed: in the file _parse_properties writes, every line of the
\* input is at its position, verbatim unless its trimmed key is a rule key
\* and then rewritten as key=<expanded value>; the rule keys the input does
\* not hold follow, each once and as a line of its own, in rule order.
C6_PropertiesOrderKept ==
    (lAdapter = "properties" /\ lPasses = 1) =>
        LET before == LinesOf(lOrig)
            after == ReadLines(lFile.text)
            seen == {PropertyKey(before[i]) : i \in {k \in DOMAIN before : HasRuledKey(before[k])}}
            missing == RulesWhere(lRules, {j \in DOMAIN lRules : lRules[j][1] \notin seen}, 1)
        IN /\ Len(after) = Len(before) + Len(missing)
           /\ \A i \in DOMAIN before :
                  after[i] = IF HasRuledKey(before[i])
                             THEN PropertyKey(before[i]) \o <<"=">>
                                      \o ValueText(RuleValue(lRules, PropertyKey(before[i]))) \o NL
                             ELSE before[i]
           /\ \A j \in DOMAIN missing :
                  after[Len(before) + j] = missing[j][1] \o <<"=">> \o ValueText(missing[j][2]) \o NL

(***************************************************************************)
(* C3, C9: path addressing                                                 *)
(***************************************************************************)
\* C3 as claimed: for every document, value and wildcard-free path of plain
\* and key[index] segments, _get_nested_value of the path after
\* _set_nested_value returns the value written.
C3_GetAfterSet == pStage = "got" => pGot = pVal

\* the segments pPath was written from
SegmentsOf(path) == CHOOSE segs \in SegmentSeqs : RenderPath(segs) = path

IsScalar(v) == v.t \in {"str", "int", "bool"}

\* the node a segment names under node: the value of the key, or the item of
\* the list under the key
Under(node, seg) ==
    IF ~(IsDict(node) /\ HasKey(node, PyStr(seg.key))) THEN [found |-> FALSE, node |-> None]
    ELSE LET x == node.f[PyStr(seg.key)]
         IN IF seg.index < 0 THEN [found |-> TRUE, node |-> x]
            ELSE IF IsList(x) /\ Len(x.items) > seg.index
            THEN [found |-> TRUE, node |-> x.items[seg.index + 1]]
            ELSE [found |-> FALSE, node |-> None]

RECURSIVE Walk(_, _)
Walk(doc, segs) ==
    IF segs = <<>> THEN [found |-> TRUE, node |-> doc]
    ELSE LET parent == Walk(doc, SubSeq(segs, 1, Len(segs) - 1))
         IN IF parent.found THEN Under(parent.node, segs[Len(segs)]) ELSE parent

\* an intermediate segment of the path names a scalar of the document: the
\* value of its key is one, or the array slot it indexes holds one
ScalarOnPath(doc, segs) ==
    \E n \in 1..(Len(segs) - 1) :
        LET parent == Walk(doc, SubSeq(segs, 1, n - 1))
            byKey == Under(parent.node, [segs[n] EXCEPT !.index = -1])
            bySlot == Under(parent.node, segs[n])
        IN /\ parent.found
           /\ \/ byKey.found /\ IsScalar(byKey.node)
              \/ bySlot.found /\ IsScalar(bySlot.node)

\* C9 as claimed: when an intermediate node of the path is a scalar (under a
\* plain key, under the key of a key[index] segment, or in the array slot the
\* path descends through), _set_nested_value raises nothing and the value is
\* stored at the full path.
C9_ScalarIntermediateReplaced ==
    (pStage = "set" /\ ScalarOnPath(pDoc, SegmentsOf(pPath))) =>
        /\ ~pSet.raised
        /\ Walk(pSet.data, SegmentsOf(pPath)) = [found |-> TRUE, node |-> pVal]

(***************************************************************************)
(* C1, C2: the installation marker                                         *)
(***************************************************************************)
Began == result \in {"running", "ok", "error"}

C1_State ==
    /\ (result = "ok" /\ ~markerAtStart) => (applied = <<"install", "pre_start">> /\ marker)
    /\ (result = "ok" /\ markerAtStart) => applied = <<"pre_start">>
    /\ (Began /\ markerAtStart) => \A i \in DOMAIN applied : applied[i] # "install"
    /\ (Began /\ applied # <<>>) => marker

\* C1: an invocation that finds no marker applies "install", then
\* "pre_start", and leaves the marker; an invocation that finds the marker
\* never applies "install" and applies "pre_start" alone; the marker, once
\* written, stays, so every later invocation finds it.
C1_InstallOnFirstLaunchOnly == [](C1_State) /\ [][marker => marker']_vars

\* C1 witness: a later invocation has found the marker of a completed first
\* launch and has applied "pre_start" alone
C1_Witness == result = "ok" /\ markerAtStart /\ installed /\ applied = <<"pre_start">>

\* C2 as claimed: between invocations, also after one that ended with a
\* fatal error, the marker exists only if apply_patches("install") has run to
\* its end in this or an earlier invocation.
C2_MarkerImpliesInstalled == (pc = "idle" /\ marker) => installed

(***************************************************************************)
(* C10: the entries apply_patches skips                                    *)
(***************************************************************************)
AdapterNames == {"_parse_yaml", "_parse_properties", "_parse_file"}

\* an entry with a recognized parser tag and at least one rule
Dispatched(e) == e.parser \in {"yaml", "yml", "properties", "file"} /\ e.find

ExpectedAdapter(e) ==
    CASE e.parser \in {"yaml", "yml"} -> "_parse_yaml"
      [] e.parser = "properties" -> "_parse_properties"
      [] e.parser = "file" -> "_parse_file"

\* the adapter calls entries 1..n of phase ph ask for, in declared order
RECURSIVE ExpectedCalls(_, _)
ExpectedCalls(ph, n) ==
    IF n = 0 THEN <<>>
    ELSE LET e == config[ph][n]
         IN ExpectedCalls(ph, n - 1)
                \o (IF Dispatched(e)
                    THEN <<[phase |-> ph, file |-> e.file, did |-> ExpectedAdapter(e)]>>
                    ELSE <<>>)

AdapterCalls == SelectSeq(events, LAMBDA ev : ev.did \in AdapterNames)

\* the entries of the current phase the loop has taken up
TakenUp == IF result = "error" THEN idx ELSE idx - 1

EntryOf(ev) == CHOOSE e \in Range(config[ev.phase]) : e.file = ev.file

\* C10: the adapter calls of an invocation are exactly those of the entries
\* taken up so far that have a recognized parser tag and a non-empty rule
\* set, in declared order (an entry with an unknown tag, no tag or no rules
\* calls no adapter and the loop goes on); an invocation that ends normally
\* has taken up every entry; an invocation ends with an error only inside an
\* adapter call, never at a skipped entry; and the parent directory of a
\* target is created just before its adapter is called.
C10_SkippedEntriesDoNotAbort ==
    (Began /\ phase # "") =>
        /\ AdapterCalls =
               (IF phase = "pre_start" /\ ~markerAtStart
                THEN ExpectedCalls("install", Len(config.install)) ELSE <<>>)
                   \o ExpectedCalls(phase, TakenUp)
        /\ result = "ok" => (phase = "pre_start" /\ idx = Len(config.pre_start) + 1)
        /\ result = "error" => Dispatched(config[phase][idx])
        /\ \A k \in DOMAIN events :
               (events[k].did \in AdapterNames /\ EntryOf(events[k]).dir # "") =>
                   /\ k > 1
                   /\ events[k - 1] = [events[k] EXCEPT !.did = "makedirs"]
                   /\ EntryOf(events[k]).dir \in dirs

\* C10 witness: an invocation has ended normally after a phase in which a
\* skipped entry (unknown tag, no tag or no rules) came before an entry whose
\* adapter was then called
C10_Witness ==
    /\ result = "ok"
    /\ \E i, j \in DOMAIN config.pre_start :
           /\ i < j
           /\ ~Dispatched(config.pre_start[i])
           /\ Dispatched(config.pre_start[j])
           /\ \E k \in DOMAIN events :
                  /\ events[k].phase = "pre_start"
                  /\ events[k].file = config.pre_start[j].file
                  /\ events[k].did \in AdapterNames

(***************************************************************************)
(* C8: the value expander                                                  *)
(***************************************************************************)
\* the coercion of a whole string, stated case by case
CoerceWhole(s) ==
    IF Lower(s) \in {<<"t", "r", "u", "e">>, <<"f", "a", "l", "s", "e">>}
    THEN PyBool(Lower(s) = <<"t", "r", "u", "e">>)
    ELSE IF Len(s) > 0 /\ Range(s) \subseteq DigitSet THEN PyInt(ParseInt(s))
    ELSE PyStr(s)

PortIs25565 == SERVER_PORT \in DOMAIN xEnv /\ xEnv[SERVER_PORT] = T25565

RECURSIVE WithAt(_, _, _)
WithAt(node, keys, v) ==
    IF keys = <<>> THEN v
    ELSE PyDict([node.f EXCEPT ![PyStr(Head(keys))] = WithAt(@, Tail(keys), v)])

\* the child after the rule: its value at suffix is mapped when it
\* is a key of the specification map, and the child is untouched otherwise
Remapped(child, suffix, spec) ==
    LET cur == _get_nested_value(child, suffix)
    IN IF HasKey(spec, cur) THEN WithAt(child, SplitOn(suffix, <<".">>), spec.f[cur])
       ELSE child

\* C7: for the single rule prefix.*.suffix with a map as its value, applied
\* to an existing document: when the prefix path, of one or more segments,
\* resolves to a map, exactly the children whose value at suffix is a key of
\* the map are rewritten to the mapped value and everything else is as it
\* was; when the prefix does not resolve to a map the document is unchanged;
\* the adapter does not raise.
C7_WildcardRemapsMatchingChildren ==
    (yStage = "done" /\ Len(yRules) = 1 /\ yRules[1] \in WildcardRules /\ yFile.exists) =>
        LET parts == SplitOn(yRules[1][1], WILDCARD)
            spec == _expand_variables(yEnv, yRules[1][2])
            children == _get_nested_value(yFile.doc, parts[1])
            after == PyDict([k \in DOMAIN children.f |->
                                Remapped(children.f[k], parts[2], spec)])
        IN /\ ~yOut.raised
           /\ yOut.file.doc = IF IsDict(children)
                              THEN WithAt(yFile.doc, SplitOn(parts[1], <<".">>), after)
                              ELSE yFile.doc

====
